---- MODULE Spec2Model ----
(***************************************************************************)
(* Model of camera_capture/camera.py: the webcam capture session.          *)
(* One run of main(): directory creation, opening the video source,        *)
(* warmup, the capture loop in manual or automatic (countdown) mode, and   *)
(* the try/except/finally finalization.                                    *)
(*                                                                         *)
(* cv2.VideoCapture, cv2.imshow/waitKey, cv2.imwrite, Path.mkdir and the   *)
(* clock are the environment: every call's outcome is drawn from the set   *)
(* of results the library can return.                                      *)
(***************************************************************************)
EXTENDS Integers, Sequences, FiniteSets, TLC

\* ------------------------------------------------------------------ bounds
MaxCount == 2        \* --count is drawn from 0..MaxCount
MaxDelay == 1        \* --delay is drawn from -1..MaxDelay
MaxTs == 1           \* datetime.now() second stamps are drawn from 0..MaxTs
MaxRetries == 2      \* saturation of the consecutive-outer-read-failure count
TicksPerSec == 2     \* resolution of time.time(): ticks per second

\* ------------------------------------------------------- program constants
ESC == 27            \* camera.py:66
SPACE == 32          \* camera.py:69
QUIT == 113          \* camera.py:97, ord('q')
WarmupFrames == 5    \* camera.py:48
DiscardFrames == 5   \* camera.py:75 and camera.py:118
ByteMask == 256      \* camera.py:65 and camera.py:97, "& 0xFF"

VARIABLES
    pc,           \* position of main() in its code
    count, delay, manual, skip_warmup,   \* args (parse_args)
    opened,       \* cap.isOpened() after cv2.VideoCapture(args.camera)
    released,     \* cap.release() has been called
    windows,      \* a "Webcam" window is open (imshow called, not destroyed)
    img_index,    \* img_index; 0 before line 52 assigns it
    ret, frame,   \* the targets of "ret, frame = cap.read()"
    display,      \* the image last passed to cv2.imshow
    key,          \* the last value of "cv2.waitKey(..) & 0xFF"
    k,            \* iterations left of the current "for _ in range(5)"
    since_start,  \* time.time() - start_time, in ticks, saturating at the delay
    files,        \* the image files written, in order
    exc,          \* the exception propagating out of main, "none" if none
    exit_code,    \* process exit status, -1 while the process runs
    finalized,    \* how many times the finally block has run
    term,         \* why the loop was left: none/normal/esc/quit/interrupt/error
    skipped,      \* index whose final-capture read failed and was not yet written
    retries,      \* consecutive failed outer-loop reads (saturating)
    ev,           \* label of the step taken last
    spaces,       \* key polls of this run that returned SPACE in manual mode
    writes,       \* calls of cv2.imwrite made so far
    polled,       \* cv2.waitKey has been called in this run
    discards      \* discard reads made since the last final read or capture

vars == <<pc, count, delay, manual, skip_warmup, opened, released, windows,
          img_index, ret, frame, display, key, k, since_start, files, exc,
          exit_code, finalized, term, skipped, retries, ev, spaces, writes,
          polled, discards>>

\* ----------------------------------------------------------------- frames
\* cap.read() returns (True, image) or (False, None).  An image records the
\* call site that read it and whether putText has drawn on it.
Sites == {"outer", "countdown", "final"}
NoneFrame == [site |-> "none", overlay |-> FALSE]
Fresh(site) == [site |-> site, overlay |-> FALSE]
\* cv2.putText(img, ...) draws in place on img
putText(img) == [img EXCEPT !.overlay = TRUE]
\* frame.copy(): a new image with the same content
copy(img) == img

\* ------------------------------------------------------------ parse_args
Counts == 0..MaxCount
Delays == (0 - 1)..MaxDelay
\* cv2.waitKey returns -1 when no key was pressed, else the key code
RawKeys == {0 - 1, ESC, SPACE, QUIT, 97}
\* "cv2.waitKey(..) & 0xFF"
Mask(raw) == raw % ByteMask

\* --------------------------------------------------------- build_filename
RECURSIVE Digits(_)
Digits(n) == IF n < 10 THEN <<n>> ELSE Append(Digits(n \div 10), n % 10)
RECURSIVE PadLeft(_, _)
PadLeft(s, w) == IF Len(s) >= w THEN s ELSE PadLeft(<<0>> \o s, w)
\* f"{idx:03d}"
Pad3(idx) == PadLeft(Digits(idx), 3)
\* f"{prefix}_{idx:03d}_{ts}.jpg" in the output folder (folder and prefix are
\* fixed for the run; ts is datetime.now() to the second)
build_filename(idx, ts) == <<Pad3(idx), ts>>

\* cv2.imwrite(filename, img): returns True and leaves the file, or returns
\* False and writes nothing
imwrite(fs, name, idx, img, ok) ==
    IF ok THEN Append(fs, [idx |-> idx, name |-> name, img |-> img]) ELSE fs

\* ------------------------------------------------------- pieces of main()
\* variant: the loop bound off by one, one capture too many
LoopCondOneMore(i, n) == i <= n + 1
\* line 54: while img_index <= args.count
LoopCond(i, n) == i <= n
\* variant: the increment is forgotten
IndexNotAdvanced(i, ok) == i
\* lines 73 and 115: img_index += 1, executed after imwrite whatever it returned
IndexAfterWrite(i, ok) == i + 1
\* variant: the index advances although the capture was skipped
IndexAdvancedOnSkip(i) == i + 1
\* lines 109-110: the final frame could not be read, the index is left alone
IndexAfterSkip(i) == i
\* line 82: elapsed = int(time.time() - start_time)
Elapsed(t) == t \div TicksPerSec
\* line 83: remaining = args.delay - elapsed
Remaining(d, t) == d - Elapsed(t)
\* time passing while a call blocks: d ticks, the count saturating once the
\* countdown has certainly run out
Advance(t, d) ==
    IF Remaining(delay, t) <= 0 THEN t ELSE t + d
\* variant: "break" instead of "continue"
OuterFailBreaks == "finally"
\* lines 56-59: "continue" after a failed outer read
AfterOuterFail == "loop"
\* variant: "continue" instead of "break"
EscContinues == "loop"
\* lines 66-68: "break" on ESC
AfterEsc == "finally"
\* variant: "break", which leaves the countdown loop only
QuitBreaksCountdown == "final"
\* lines 97-99: "raise KeyboardInterrupt" on 'q', caught at line 121
AfterQuit == "except"
\* lines 102-105: after the countdown's preview read, back to the top of
\* "while True" whatever ret is
AfterCountdownRead(r) == "countdown"
\* variant: the countdown stops one second early
CountdownDoneEarly(r) == r <= 1
\* variant: the countdown stops only below zero
CountdownDoneStrict(r) == r < 0
\* lines 94-95: if remaining <= 0: break
CountdownDone(r) == r <= 0
\* lines 66 and 69: the key tests of manual mode
IsEsc(c) == c = ESC
\* variant: every key but ESC captures ("else" for "if key == 32")
IsNotEsc(c) == c # ESC
IsSpace(c) == c = SPACE
\* variant: one discard read too few
DiscardShort == DiscardFrames - 1
\* lines 75 and 118: for _ in range(5)
DiscardRange == DiscardFrames
\* line 84: display = frame.copy(); None has no copy() (AttributeError)
CanCopy(img) == img # NoneFrame
\* variant: the cleanup is not run
FinalizeSkipped(n) == n
\* lines 123-126: the finally block runs once for the try statement
FinalizeCount(n) == n + 1
\* lines 28 and 41: the status passed to sys.exit
FailureExit == 1
\* variant: sys.exit() called without the status
sys_exit_no_status(code) == 0
\* sys.exit(code): the process ends with status code
sys_exit(code) == code
\* main() returning: exit status 0; an uncaught exception: exit status 1
ExitStatus(e) == IF e = "none" THEN 0 ELSE 1

InLoop == {"loop", "manual", "discard", "countdown", "poll", "cd_read", "final"}
PreLoop == {"ensure_dir", "open", "configure", "warmup", "start"}

\* -------------------------------------------------------------------- Init
Init ==
    /\ pc = "ensure_dir"
    /\ count \in Counts
    /\ delay \in Delays
    /\ manual \in BOOLEAN
    /\ skip_warmup \in BOOLEAN
    /\ opened = FALSE
    /\ released = FALSE
    /\ windows = FALSE
    /\ img_index = 0
    /\ ret = FALSE
    /\ frame = NoneFrame
    /\ display = NoneFrame
    /\ key = Mask(0 - 1)
    /\ k = 0
    /\ since_start = 0
    /\ files = <<>>
    /\ exc = "none"
    /\ exit_code = 0 - 1
    /\ finalized = 0
    /\ term = "none"
    /\ skipped = 0
    /\ retries = 0
    /\ ev = "Init"
    /\ spaces = 0
    /\ writes = 0
    /\ polled = FALSE
    /\ discards = 0

Config == <<count, delay, manual, skip_warmup>>

\* ------------------------------------------------------------- start-up
\* ensure_dir(args.output), lines 23-28 and 36
EnsureDir(ok) ==
    /\ pc = "ensure_dir"
    /\ IF ok
         THEN /\ pc' = "open"
              /\ UNCHANGED exit_code
         ELSE /\ pc' = "exited"
              /\ exit_code' = sys_exit(FailureExit)
    /\ ev' = IF ok THEN "EnsureDir" ELSE "EnsureDirFail"
    /\ UNCHANGED <<Config, opened, released, windows, img_index, ret, frame,
                   display, key, k, since_start, files, exc, finalized, term,
                   skipped, retries,
                   spaces, writes, polled, discards>>

\* cap = cv2.VideoCapture(args.camera); if not cap.isOpened(): exit, lines 38-41
OpenCamera(ok) ==
    /\ pc = "open"
    /\ opened' = ok
    /\ IF ok
         THEN /\ pc' = "configure"
              /\ UNCHANGED exit_code
         ELSE /\ pc' = "exited"
              /\ exit_code' = sys_exit(FailureExit)
    /\ ev' = IF ok THEN "OpenCamera" ELSE "OpenCameraFail"
    /\ UNCHANGED <<Config, released, windows, img_index, ret, frame, display,
                   key, k, since_start, files, exc, finalized, term, skipped,
                   retries,
                   spaces, writes, polled, discards>>

\* cap.set(width), cap.set(height); if not args.skip_warmup: ..., lines 43-47
Configure ==
    /\ pc = "configure"
    /\ IF skip_warmup
         THEN pc' = "start" /\ k' = 0
         ELSE pc' = "warmup" /\ k' = WarmupFrames
    /\ ev' = "Configure"
    /\ UNCHANGED <<Config, opened, released, windows, img_index, ret, frame,
                   display, key, since_start, files, exc, exit_code, finalized,
                   term, skipped, retries,
                   spaces, writes, polled, discards>>

\* for _ in range(5): cap.read(), lines 48-49; the result is dropped
WarmupRead(ok) ==
    /\ pc = "warmup"
    /\ k > 0
    /\ k' = k - 1
    /\ pc' = IF k = 1 THEN "start" ELSE "warmup"
    /\ ev' = "WarmupRead"
    /\ UNCHANGED <<Config, opened, released, windows, img_index, ret, frame,
                   display, key, since_start, files, exc, exit_code, finalized,
                   term, skipped, retries,
                   spaces, writes, polled, discards>>

\* print(...); img_index = 1; try:, lines 51-53
StartCapture ==
    /\ pc = "start"
    /\ img_index' = 1
    /\ pc' = "loop"
    /\ ev' = "StartCapture"
    /\ UNCHANGED <<Config, opened, released, windows, ret, frame, display, key,
                   k, since_start, files, exc, exit_code, finalized, term,
                   skipped, retries,
                   spaces, writes, polled, discards>>

\* ------------------------------------------------------------ the loop
\* line 54 false: the while loop ends, control falls to the finally block
LoopDone ==
    /\ pc = "loop"
    /\ ~LoopCond(img_index, count)
    /\ pc' = "finally"
    /\ term' = "normal"
    /\ ev' = "LoopDone"
    /\ UNCHANGED <<Config, opened, released, windows, img_index, ret, frame,
                   display, key, k, since_start, files, exc, exit_code,
                   finalized, skipped, retries,
                   spaces, writes, polled, discards>>

\* lines 54-59 with ret False: warning, sleep(0.2), continue
OuterReadFail ==
    /\ pc = "loop"
    /\ LoopCond(img_index, count)
    /\ ret' = FALSE
    /\ frame' = NoneFrame
    /\ pc' = AfterOuterFail
    /\ retries' = IF retries < MaxRetries THEN retries + 1 ELSE retries
    /\ ev' = "OuterReadFail"
    /\ UNCHANGED <<Config, opened, released, windows, img_index, display, key,
                   k, since_start, files, exc, exit_code, finalized, term,
                   skipped,
                   spaces, writes, polled, discards>>

\* lines 54-56 with ret True, then the dispatch of line 61; in automatic mode
\* line 80, start_time = time.time()
OuterReadOk ==
    /\ pc = "loop"
    /\ LoopCond(img_index, count)
    /\ ret' = TRUE
    /\ frame' = Fresh("outer")
    /\ retries' = 0
    /\ IF manual
         THEN pc' = "manual" /\ UNCHANGED since_start
         ELSE pc' = "countdown" /\ since_start' = 0
    /\ ev' = "OuterReadOk"
    /\ UNCHANGED <<Config, opened, released, windows, img_index, display, key,
                   k, files, exc, exit_code, finalized, term, skipped,
                   spaces, writes, polled, discards>>

\* -------------------------------------------------------------- manual mode
\* lines 62-65: the overlay is drawn on frame itself, shown, and the key polled
ManualShown == putText(frame)

\* lines 62-68, key == 27
ManualEsc(raw) ==
    /\ pc = "manual"
    /\ IsEsc(Mask(raw))
    /\ frame' = ManualShown
    /\ display' = ManualShown
    /\ windows' = TRUE
    /\ key' = Mask(raw)
    /\ polled' = TRUE
    /\ pc' = AfterEsc
    /\ term' = "esc"
    /\ ev' = "ManualEsc"
    /\ UNCHANGED <<Config, opened, released, img_index, ret, k, since_start,
                   files, exc, exit_code, finalized, skipped, retries,
                   spaces, writes, discards>>

\* lines 62-77, key == 32: build_filename, imwrite(filename, frame), index += 1,
\* then the five discard reads
ManualCapture(raw, ok, ts) ==
    /\ pc = "manual"
    /\ ~IsEsc(Mask(raw))
    /\ IsSpace(Mask(raw))
    /\ frame' = ManualShown
    /\ display' = ManualShown
    /\ windows' = TRUE
    /\ key' = Mask(raw)
    /\ files' = imwrite(files, build_filename(img_index, ts), img_index,
                        ManualShown, ok)
    /\ img_index' = IndexAfterWrite(img_index, ok)
    /\ k' = DiscardRange
    /\ spaces' = spaces + 1
    /\ writes' = writes + 1
    /\ polled' = TRUE
    /\ discards' = 0
    /\ pc' = "discard"
    /\ ev' = IF ok THEN "ManualCapture" ELSE "ManualCaptureFail"
    /\ UNCHANGED <<Config, opened, released, ret, since_start, exc, exit_code,
                   finalized, term, skipped, retries>>

\* lines 62-77, any other key or none: continue
ManualOther(raw) ==
    /\ pc = "manual"
    /\ ~IsEsc(Mask(raw))
    /\ ~IsSpace(Mask(raw))
    /\ frame' = ManualShown
    /\ display' = ManualShown
    /\ windows' = TRUE
    /\ key' = Mask(raw)
    /\ polled' = TRUE
    /\ pc' = "loop"
    /\ ev' = "ManualOther"
    /\ UNCHANGED <<Config, opened, released, img_index, ret, k, since_start,
                   files, exc, exit_code, finalized, term, skipped, retries,
                   spaces, writes, discards>>

\* lines 75-76 and 118-119: for _ in range(5): cap.read(); the result is dropped
DiscardRead(ok) ==
    /\ pc = "discard"
    /\ k > 0
    /\ k' = k - 1
    /\ discards' = discards + 1
    /\ pc' = IF k = 1 THEN "loop" ELSE "discard"
    /\ ev' = "DiscardRead"
    /\ UNCHANGED <<Config, opened, released, windows, img_index, ret, frame,
                   display, key, since_start, files, exc, exit_code, finalized,
                   term, skipped, retries,
                   spaces, writes, polled>>

\* ----------------------------------------------------------- automatic mode
\* lines 82-95: top of "while True": remaining, display = frame.copy(), the two
\* putText on display, imshow, and the test "remaining <= 0"
CountdownTop ==
    /\ pc = "countdown"
    /\ IF CanCopy(frame)
         THEN /\ display' = putText(copy(frame))
              /\ windows' = TRUE
              /\ pc' = IF CountdownDone(Remaining(delay, since_start))
                         THEN "final" ELSE "poll"
              /\ ev' = "CountdownTop"
              /\ UNCHANGED <<exc, term>>
         ELSE /\ exc' = "AttributeError"
              /\ term' = "error"
              /\ pc' = "finally"
              /\ ev' = "CountdownCrash"
              /\ UNCHANGED <<display, windows>>
    /\ UNCHANGED <<Config, opened, released, img_index, ret, frame, key, k,
                   since_start, files, exit_code, finalized, skipped, retries,
                   spaces, writes, polled, discards>>

\* lines 97-99: cv2.waitKey(100) & 0xFF == ord('q'); the call blocks d ticks
AutoPoll(raw, d) ==
    /\ pc = "poll"
    /\ key' = Mask(raw)
    /\ polled' = TRUE
    /\ since_start' = Advance(since_start, d)
    /\ IF Mask(raw) = QUIT
         THEN /\ pc' = AfterQuit
              /\ term' = "quit"
              /\ ev' = "AutoPollQuit"
         ELSE /\ pc' = "cd_read"
              /\ ev' = "AutoPoll"
              /\ UNCHANGED term
    /\ UNCHANGED <<Config, opened, released, windows, img_index, ret, frame,
                   display, k, files, exc, exit_code, finalized, skipped,
                   retries,
                   spaces, writes, discards>>

\* lines 102-105: ret, frame = cap.read(); on failure a warning and sleep(0.05)
CountdownRead(ok, d) ==
    /\ pc = "cd_read"
    /\ ret' = ok
    /\ frame' = IF ok THEN Fresh("countdown") ELSE NoneFrame
    /\ since_start' = Advance(since_start, d)
    /\ pc' = AfterCountdownRead(ok)
    /\ ev' = IF ok THEN "CountdownRead" ELSE "CountdownReadFail"
    /\ UNCHANGED <<Config, opened, released, windows, img_index, display, key,
                   k, files, exc, exit_code, finalized, term, skipped, retries,
                   spaces, writes, polled, discards>>

\* lines 108-119 with ret True: build_filename, imwrite, index += 1, then the
\* five discard reads
FinalReadOk(wok, ts) ==
    /\ pc = "final"
    /\ ret' = TRUE
    /\ frame' = Fresh("final")
    /\ files' = imwrite(files, build_filename(img_index, ts), img_index,
                        Fresh("final"), wok)
    /\ img_index' = IndexAfterWrite(img_index, wok)
    /\ skipped' = 0
    /\ k' = DiscardRange
    /\ writes' = writes + 1
    /\ discards' = 0
    /\ pc' = "discard"
    /\ ev' = IF wok THEN "FinalCapture" ELSE "FinalCaptureFail"
    /\ UNCHANGED <<Config, opened, released, windows, display, key,
                   since_start, exc, exit_code, finalized, term, retries,
                   spaces, polled>>

\* lines 108-110 and 118-119 with ret False: warning, the capture is skipped
FinalReadFail ==
    /\ pc = "final"
    /\ ret' = FALSE
    /\ frame' = NoneFrame
    /\ img_index' = IndexAfterSkip(img_index)
    /\ skipped' = img_index
    /\ k' = DiscardRange
    /\ discards' = 0
    /\ pc' = "discard"
    /\ ev' = "FinalReadFail"
    /\ UNCHANGED <<Config, opened, released, windows, display, key,
                   since_start, files, exc, exit_code, finalized, term, retries,
                   spaces, writes, polled>>

\* ------------------------------------------------------------- termination
\* a KeyboardInterrupt (Ctrl-C) delivered to the process: inside the try
\* statement it is caught at line 121, before it nothing catches it.  (An
\* interrupt arriving inside the except or finally block is not modelled.)
Interrupt ==
    /\ pc \in InLoop \cup PreLoop
    /\ IF pc \in InLoop
         THEN /\ pc' = "except"
              /\ term' = "interrupt"
              /\ UNCHANGED <<exc, exit_code>>
         ELSE /\ pc' = "exited"
              /\ exc' = "KeyboardInterrupt"
              /\ exit_code' = ExitStatus("KeyboardInterrupt")
              /\ UNCHANGED term
    /\ ev' = "Interrupt"
    /\ UNCHANGED <<Config, opened, released, windows, img_index, ret, frame,
                   display, key, k, since_start, files, finalized, skipped,
                   retries,
                   spaces, writes, polled, discards>>

\* lines 121-122: except KeyboardInterrupt: print("Capture interrupted.")
Except ==
    /\ pc = "except"
    /\ pc' = "finally"
    /\ ev' = "Except"
    /\ UNCHANGED <<Config, opened, released, windows, img_index, ret, frame,
                   display, key, k, since_start, files, exc, exit_code,
                   finalized, term, skipped, retries,
                   spaces, writes, polled, discards>>

\* lines 123-126: cap.release(); cv2.destroyAllWindows(); print; then main
\* returns or the pending exception leaves it
Finalize ==
    /\ pc = "finally"
    /\ released' = TRUE
    /\ windows' = FALSE
    /\ finalized' = FinalizeCount(finalized)
    /\ exit_code' = ExitStatus(exc)
    /\ pc' = "exited"
    /\ ev' = "Finalize"
    /\ UNCHANGED <<Config, opened, img_index, ret, frame, display, key, k,
                   since_start, files, exc, term, skipped, retries,
                   spaces, writes, polled, discards>>

Next ==
    \/ \E ok \in BOOLEAN : EnsureDir(ok)
    \/ \E ok \in BOOLEAN : OpenCamera(ok)
    \/ Configure
    \/ \E ok \in BOOLEAN : WarmupRead(ok)
    \/ StartCapture
    \/ LoopDone
    \/ OuterReadFail
    \/ OuterReadOk
    \/ \E raw \in RawKeys : ManualEsc(raw)
    \/ \E raw \in RawKeys, ok \in BOOLEAN, ts \in 0..MaxTs : ManualCapture(raw, ok, ts)
    \/ \E raw \in RawKeys : ManualOther(raw)
    \/ \E ok \in BOOLEAN : DiscardRead(ok)
    \/ CountdownTop
    \/ \E raw \in RawKeys, d \in 0..1 : AutoPoll(raw, d)
    \/ \E ok \in BOOLEAN, d \in 0..1 : CountdownRead(ok, d)
    \/ \E wok \in BOOLEAN, ts \in 0..MaxTs : FinalReadOk(wok, ts)
    \/ FinalReadFail
    \/ Interrupt
    \/ Except
    \/ Finalize

Spec == Init /\ [][Next]_vars

TypeOK ==
    /\ pc \in InLoop \cup PreLoop \cup {"except", "finally", "exited"}
    /\ count \in Counts /\ delay \in Delays
    /\ manual \in BOOLEAN /\ skip_warmup \in BOOLEAN
    /\ img_index \in 0..(MaxCount + 1)
    /\ k \in 0..DiscardFrames
    /\ finalized \in 0..1
    /\ exit_code \in {0 - 1, 0, 1}

\* ================================================================== claims
Indices == [i \in 1..Len(files) |-> files[i].idx]
Exited == pc = "exited"
UserEnd == {"normal", "esc", "quit"}

\* C1: finalization (release of the video source, closing of the display
\* surface) has run exactly once when the run has ended by normal completion,
\* by ESC in manual mode or by 'q' during the countdown (and on every other way
\* out of the loop); it never runs twice, and never before the loop is left.
C1_FinalizedExactlyOnce ==
    /\ finalized <= 1
    /\ (Exited /\ term \in UserEnd => finalized = 1 /\ released /\ ~windows)
    /\ (Exited /\ term # "none" => finalized = 1 /\ released /\ ~windows)
    /\ (finalized = 1 => Exited /\ term # "none")

C1_Witness ==
    Exited /\ term = "quit" /\ finalized = 1 /\ released

\* C2: an automatic run with count = N >= 1 that was not cancelled and ended
\* normally has written exactly N files, with the indices 1, 2, ..., N in order.
C2_AutoRunWritesAll ==
    (Exited /\ ~manual /\ term = "normal" /\ count >= 1)
        => Indices = [i \in 1..count |-> i]

\* C3: a failed frame read during the countdown is not fatal: the next step is
\* the next display of the countdown, which shows an image (the stale frame),
\* and the run is not aborted.
C3_CountdownReadFailNonFatal ==
    [][ev = "CountdownReadFail" =>
          /\ ev' \in {"CountdownTop", "Interrupt"}
          /\ (ev' = "CountdownTop" => display'.site \in Sites)]_vars

\* C4: when the final-capture read fails, no file is written, the index is
\* unchanged and the run goes on; the next countdown is a fresh one for the same
\* index; the number of files written never exceeds count.
C4_FinalReadFailRetriesSlot ==
    /\ [](Len(files) <= count)
    /\ [][/\ (ev' = "FinalReadFail" =>
                /\ img_index' = img_index
                /\ files' = files
                /\ pc' = "discard"
                /\ term' = "none"
                /\ exit_code' = 0 - 1)
          /\ (skipped # 0 /\ ev' = "OuterReadOk" =>
                /\ img_index' = skipped
                /\ pc' = "countdown"
                /\ since_start' = 0)]_vars

C4_Witness ==
    /\ skipped # 0
    /\ ev = "OuterReadOk"
    /\ pc = "countdown"
    /\ img_index = skipped
    /\ Len(files) = img_index - 1

\* C5: whenever the index advances from i to i+1, a file for index i has just
\* been written; a write that fails does not advance the index.
C5_IndexAdvancesOnlyAfterWrite ==
    [][(img_index # 0 /\ img_index' # img_index) =>
          /\ img_index' = img_index + 1
          /\ Len(files') = Len(files) + 1
          /\ files'[Len(files')].idx = img_index]_vars

\* C6: the index never decreases, no index is used for two written files, and
\* the file names of one run are pairwise distinct.
C6_IndexMonotoneNamesDistinct ==
    /\ [](\A i, j \in 1..Len(files) :
            i < j => /\ files[i].idx < files[j].idx
                     /\ files[i].name # files[j].name)
    /\ [](\A i \in 1..Len(files) : files[i].idx < img_index)
    /\ [][img_index' >= img_index]_vars

C6_Witness ==
    /\ Len(files) >= 2
    /\ files[1].name[2] = files[2].name[2]
    /\ files[1].name # files[2].name

\* C7: in manual mode, once ESC has been observed at the key poll the run ends
\* with fewer than count files, nothing is written afterwards, and finalization
\* runs exactly once.
C7_ManualCancel ==
    /\ [](term = "esc" =>
            /\ manual
            /\ Len(files) < count
            /\ pc \in {"finally", "exited"}
            /\ (Exited => finalized = 1 /\ released)
            /\ (~Exited => finalized = 0))
    /\ [][term = "esc" =>
            /\ files' = files
            /\ img_index' = img_index
            /\ ev' = "Finalize"]_vars

C7_Witness ==
    term = "esc" /\ Exited /\ Len(files) >= 1 /\ finalized = 1

\* C8: in automatic mode, 'q' at the countdown poll unwinds the whole run: no
\* frame is read, no file written and the index not changed after it, and the
\* only steps left are the interrupt handler and finalization.
C8_QuitUnwindsRun ==
    /\ [](ev = "AutoPollQuit" => pc = "except" /\ term = "quit" /\ ~manual)
    /\ [](term = "quit" => pc \in {"except", "finally", "exited"})
    /\ [][term = "quit" =>
            /\ ev' \in {"Except", "Finalize"}
            /\ UNCHANGED <<img_index, files, ret, frame, display, key>>]_vars

C8_Witness ==
    term = "quit" /\ Exited /\ Len(files) >= 1 /\ img_index <= count

\* C9: a failed outer-loop read changes nothing but the read's own targets:
\* index, files, display, key and countdown are untouched, the loop is still
\* running and its next step is again the outer read (or an interrupt), however
\* many reads have failed in a row.
C9_OuterReadFailOnlyRetries ==
    /\ [](ev = "OuterReadFail" =>
            /\ pc = "loop"
            /\ LoopCond(img_index, count)
            /\ term = "none"
            /\ exit_code = 0 - 1)
    /\ [][/\ (ev' = "OuterReadFail" =>
                UNCHANGED <<img_index, files, display, windows, key, k,
                            since_start, finalized>>)
          /\ (ev = "OuterReadFail" =>
                ev' \in {"OuterReadFail", "OuterReadOk", "Interrupt"})]_vars

C9_Witness ==
    ev = "OuterReadFail" /\ retries = MaxRetries /\ Len(files) >= 1

\* C10: the exit status is non-zero when the output directory cannot be
\* created or the video source cannot be opened, and then the loop was never
\* entered, no frame read and no file written; it is zero on normal completion
\* and on user cancellation in either mode.
C10_ExitStatus ==
    /\ (ev \in {"EnsureDirFail", "OpenCameraFail"} =>
            /\ Exited
            /\ exit_code > 0
            /\ img_index = 0
            /\ frame = NoneFrame
            /\ ~ret
            /\ files = <<>>
            /\ ~opened)
    /\ (Exited /\ term \in UserEnd => exit_code = 0)

C10_Witness ==
    ev = "OpenCameraFail" /\ Exited /\ exit_code = 1

\* C11: manual mode, SPACE observed at k polls and then ESC: the run ends
\* cleanly with exactly k files written and the index equal to k + 1.
C11_SpacesThenEsc ==
    (manual /\ term = "esc" /\ Exited) =>
        /\ spaces < count
        /\ Len(files) = spaces
        /\ img_index = spaces + 1
        /\ exit_code = 0
        /\ finalized = 1

\* C12: every configuration a run is started with has count >= 1 and
\* delay >= 0.
C12_ConfigInvariant ==
    pc \in InLoop => count >= 1 /\ delay >= 0

\* C13: after each capture exactly DiscardFrames frames are read and dropped
\* before the next outer-loop read, and these reads change neither the index
\* nor the files (nor frame and ret: their results are dropped).
Captures == {"ManualCapture", "ManualCaptureFail", "FinalCapture", "FinalCaptureFail"}
C13_FiveDiscardsAfterCapture ==
    /\ [](pc = "loop" /\ writes > 0 => discards = DiscardFrames)
    /\ [](pc = "discard" => discards < DiscardFrames)
    /\ [][/\ (ev' \in Captures => pc' = "discard" /\ discards' = 0)
          /\ (pc = "discard" => ev' \in {"DiscardRead", "Interrupt"})
          /\ (ev' = "DiscardRead" =>
                /\ discards' = discards + 1
                /\ UNCHANGED <<img_index, files, frame, ret, display, key>>)]_vars

C13_Witness ==
    /\ ev = "DiscardRead"
    /\ pc = "loop"
    /\ discards = DiscardFrames
    /\ Len(files) >= 1

\* C14: in automatic mode a file is written only by the step that follows a
\* countdown pass with remaining <= 0 (elapsed whole seconds >= delay), and the
\* image written is the frame of the final read, which succeeded.
C14_AutoWritesAfterCountdown ==
    /\ [](~manual => \A i \in 1..Len(files) : files[i].img = Fresh("final"))
    /\ [][(~manual /\ writes' # writes) =>
            /\ pc = "final"
            /\ ev = "CountdownTop"
            /\ Remaining(delay, since_start) <= 0
            /\ Elapsed(since_start) >= delay
            /\ ret'
            /\ frame' = Fresh("final")
            /\ (Len(files') > Len(files) =>
                    files'[Len(files')].img = frame')]_vars

C14_Witness ==
    /\ ~manual
    /\ delay >= 1
    /\ polled
    /\ ev = "FinalCapture"
    /\ files[Len(files)].img.site = "final"

\* ------------------------------------------------- runs that are let finish
\* The runs C15 speaks of: 'q' is never returned by the countdown poll and no
\* interrupt arrives; the program keeps executing, a read that is attempted
\* again and again succeeds at some attempt, and the clock advances.
OtherKeys == RawKeys \ {QUIT}
PollNoQuit == \E raw \in OtherKeys, d \in 0..1 : AutoPoll(raw, d)
PollTick == \E raw \in OtherKeys : AutoPoll(raw, 1)
CountdownReadSucceeds == \E d \in 0..1 : CountdownRead(TRUE, d)
FinalReadSucceeds == \E wok \in BOOLEAN, ts \in 0..MaxTs : FinalReadOk(wok, ts)

LiveNext ==
    \/ \E ok \in BOOLEAN : EnsureDir(ok)
    \/ \E ok \in BOOLEAN : OpenCamera(ok)
    \/ Configure
    \/ \E ok \in BOOLEAN : WarmupRead(ok)
    \/ StartCapture
    \/ LoopDone
    \/ OuterReadFail
    \/ OuterReadOk
    \/ \E raw \in RawKeys : ManualEsc(raw)
    \/ \E raw \in RawKeys, ok \in BOOLEAN, ts \in 0..MaxTs : ManualCapture(raw, ok, ts)
    \/ \E raw \in RawKeys : ManualOther(raw)
    \/ \E ok \in BOOLEAN : DiscardRead(ok)
    \/ CountdownTop
    \/ PollNoQuit
    \/ \E ok \in BOOLEAN, d \in 0..1 : CountdownRead(ok, d)
    \/ FinalReadSucceeds
    \/ FinalReadFail
    \/ Finalize

LiveSpec ==
    /\ Init
    /\ [][LiveNext]_vars
    /\ WF_vars(LiveNext)
    /\ SF_vars(OuterReadOk)
    /\ SF_vars(CountdownReadSucceeds)
    /\ SF_vars(FinalReadSucceeds)
    /\ SF_vars(PollTick)

\* C15: an automatic run with count >= 1 in which 'q' is never pressed and no
\* read fails forever eventually reaches img_index = count + 1, leaves the loop
\* and runs finalization.
C15_AutoRunCompletes ==
    (~manual /\ count >= 1 /\ pc = "loop")
        ~> (img_index = count + 1 /\ term = "normal" /\ finalized = 1)

\* C16: in manual mode a key poll that returns no key, or a key other than
\* SPACE and ESC, is a no-op: index, files and the discard loop are untouched
\* and the next step is the outer read.
C16_ManualOtherKeyNoOp ==
    [][/\ (pc = "manual" /\ ev' # "Interrupt" /\ key' \notin {ESC, SPACE} =>
                /\ ev' = "ManualOther"
                /\ pc' = "loop"
                /\ UNCHANGED <<img_index, files, writes, k, discards, term,
                               exit_code, finalized>>)
       /\ (ev = "ManualOther" =>
                ev' \in {"OuterReadOk", "OuterReadFail", "Interrupt"})]_vars

C16_Witness ==
    ev = "ManualOther" /\ key = QUIT /\ pc = "loop" /\ Len(files) >= 1

\* C17: once a run with count >= 1 has assigned the index, 1 <= img_index <=
\* count + 1 and the number of image writes made (calls of imwrite) is
\* img_index - 1; no write is made with an index greater than count.
Started ==
    \/ pc \in InLoop \cup {"except", "finally"}
    \/ (Exited /\ finalized = 1)
C17_IndexRangeAndWrites ==
    /\ []((count >= 1 /\ Started) =>
            /\ 1 <= img_index
            /\ img_index <= count + 1
            /\ writes = img_index - 1
            /\ Len(files) <= writes
            /\ \A i \in 1..Len(files) : files[i].idx <= count)
    /\ [][(count >= 1 /\ writes' # writes) => img_index <= count]_vars

C17_Witness ==
    /\ count >= 1
    /\ Exited
    /\ term = "normal"
    /\ img_index = count + 1
    /\ writes = count

\* C18: once the video source is open, every way the program stops releases
\* it before the process ends, an interrupt during configuration or warmup
\* included.
C18_ReleasedOnEveryStop ==
    (Exited /\ opened) => released

\* C19 as stated: in automatic mode with delay = 0 no key poll ever happens and
\* the run can end only by reaching index > count.
C19_DelayZeroEndsOnlyByCount ==
    (~manual /\ delay = 0) => (~polled /\ term \in {"none", "normal"})

\* C19 as amended: in automatic mode the key is polled only while
\* remaining > 0; with delay <= 0 no key poll ever happens, a quit key can
\* never cancel the run, and the run ends only by reaching index > count or by
\* an interrupt delivered from outside.
C19_PollOnlyWhileRemaining ==
    /\ []((~manual /\ delay <= 0) =>
            /\ ~polled
            /\ key = Mask(0 - 1)
            /\ term \in {"none", "normal", "interrupt"})
    /\ [](term = "quit" => ~manual /\ delay >= 1)
    /\ [][(~manual /\ ev' \in {"AutoPoll", "AutoPollQuit"}) =>
            /\ pc = "poll"
            /\ ev = "CountdownTop"
            /\ Remaining(delay, since_start) > 0]_vars

C19_Witness ==
    /\ ~manual
    /\ delay = 0
    /\ Exited
    /\ term = "normal"
    /\ ~polled
    /\ Len(files) >= 1

\* C20: no written image carries overlay text, in either mode.
C20_NoOverlayInFiles ==
    \A i \in 1..Len(files) : ~files[i].img.overlay

====
